---------------------------- MODULE Spec2Model ----------------------------
(***************************************************************************)
(* Model of the settings-editing core of the Allium launcher:              *)
(*   - SettingsThemeState (state/settings/theme.rs): the theme editor, a   *)
(*     screen state with a color-digit editor and a confirm-reset flag;    *)
(*   - Display (view/settings/display.rs): the display-settings view, a    *)
(*     composite view that drains the bubble queue its settings list       *)
(*     fills.                                                              *)
(* Each key-event handler is one action; the values a handler returns are  *)
(* kept in variables so that properties can speak about them.              *)
(***************************************************************************)
EXTENDS Integers, Sequences, FiniteSets, TLC

VARIABLES
    \* ---- SettingsThemeState (theme.rs:21-26)
    stylesheet,        \* the working copy of the Stylesheet
    selected,          \* index of the selected ThemeSetting
    selected_color,    \* Option<ColorEditState>: <<>> or <<[color, selected]>>
    confirm_reset,     \* the confirm-reset flag
    \* ---- the last call of SettingsThemeState::handle_key_event
    key_event,         \* its argument (<<>> before the first call)
    command,           \* the Option<AlliumCommand> it returned
    redraw,            \* the bool it returned
    theme_panic,       \* TRUE once the handler hit unreachable!()
    calls,             \* calls of handle_key_event so far
    entered,           \* Some([stylesheet, selected]) as they were when the
                       \* current or last color edit was entered
    \* ---- bookkeeping of the digit-stepping specification
    origin,            \* the working color the stepping started from
    net,               \* number of Ups minus number of Downs since then
    \* ---- Display (display.rs:21-29)
    settings,          \* the DisplaySettings
    list,              \* the SettingsList child
    button_hints,      \* the Row of button hints
    edit_button,       \* Option<ButtonHint>: the Edit hint while it is hidden
    has_changed,       \* whether a setting changed since construction
    \* ---- the last call of Display::handle_key_event
    bubble,            \* the caller's bubble queue as the call left it
    event,             \* its KeyEvent argument (<<>> before the first call)
    consumed,          \* whether the list consumed the event
    handled,           \* the bool it returned (<<>>: none, or it did not return)
    display_panic,     \* TRUE once the handler hit unreachable!()
    popped,            \* the entries it popped off the bubble queue, in order
    pushed,            \* the entries Display itself pushed on the bubble queue
    sent,              \* the commands it sent on the command sink, in order
    last_saved,        \* the last DisplaySettings snapshot sent on the sink
    queued_calls       \* calls made so far in SpecDisplayQueue

theme_vars == <<stylesheet, selected, selected_color, confirm_reset,
                key_event, command, redraw, theme_panic, calls, entered>>
digit_vars == <<origin, net>>
display_vars == <<settings, list, button_hints, edit_button, has_changed,
                  bubble, event, consumed, handled, display_panic,
                  popped, pushed, sent, last_saved, queued_calls>>

-----------------------------------------------------------------------------
(* Bounds of the model *)

\* Key events the theme editor handles in one run of Spec.
MaxCalls == 9

\* Calls of Display::handle_key_event in one run of SpecDisplayQueue.
MaxQueuedCalls == 4

\* How far the Ups and Downs of a digit-stepping run may drift apart.
MaxRun == 16

-----------------------------------------------------------------------------
(* common::platform::{Key, KeyEvent} as theme.rs and display.rs match on   *)
(* them.  "X" stands for every key that no arm names.                      *)

Keys == {"Up", "Down", "Left", "Right", "A", "B", "X"}
Kinds == {"Pressed", "Autorepeat", "Released"}
KeyEvents == [kind : Kinds, key : Keys]

Pressed(k) == [kind |-> "Pressed", key |-> k]
Autorepeat(k) == [kind |-> "Autorepeat", key |-> k]
Released(k) == [kind |-> "Released", key |-> k]

\* Option<T>: None is the empty sequence, Some(x) a sequence of one.
None == <<>>
Some(x) == <<x>>

-----------------------------------------------------------------------------
(* Rust integer arithmetic used by the digit editor *)

\* `b as i8` for a u8 b: two's complement reinterpretation.
as_i8(b) == IF b >= 128 THEN b - 256 ELSE b

\* Rust's `%` on signed integers: the remainder has the dividend's sign.
rem(a, n) == IF a >= 0 THEN a % n ELSE 0 - ((0 - a) % n)

\* i32::rem_euclid / i8::rem_euclid for a positive modulus.
rem_euclid(a, n) == a % n

\* `x as u8` for an integer x.
as_u8(x) == x % 256

\* (x as isize + d).clamp(lo, hi) as usize
clamp(x, lo, hi) == IF x < lo THEN lo ELSE IF x > hi THEN hi ELSE x

-----------------------------------------------------------------------------
(* common::display::color::Color, a 24-bit RGB value *)

Bytes == 0 .. 255
Color(r0, g0, b0) == [r |-> r0, g |-> g0, b |-> b0]
with_r(c, v) == [c EXCEPT !.r = v]
with_g(c, v) == [c EXCEPT !.g = v]
with_b(c, v) == [c EXCEPT !.b = v]

\* Color::invert, used by the DarkMode entry.
invert(c) == Color(255 - c.r, 255 - c.g, 255 - c.b)

\* A high-nibble step that saturates at the ends of the byte range instead
\* of wrapping.
step_high_saturating(b, d) == clamp(b + d, 0, 255)

\* theme.rs:249 / 276: the high-nibble step, (b as i32 + d).rem_euclid(256) as u8
\* with d = +16 (Up) or -16 (Down).
step_high(b, d) == as_u8(rem_euclid(b + d, 256))

\* A low-nibble step done as plain byte arithmetic, which carries into the
\* high nibble.
step_low_carry(b, d) == as_u8(b + d)

\* theme.rs:251-252 / 278-279: the low-nibble step,
\* (b - b % 16) + (b as i8 % 16 + d).rem_euclid(16) as u8, d = +1 or -1.
step_low(b, d) == (b - (b % 16)) + as_u8(rem_euclid(rem(as_i8(b), 16) + d, 16))

\* theme.rs:246-269 (d = 1) and 273-296 (d = -1): the new working color for
\* the digit under the cursor; <<>> stands for the unreachable!() arm.
step_color(c, cursor, d) ==
    CASE cursor = 0 -> Some(with_r(c, step_high(c.r, 16 * d)))
      [] cursor = 1 -> Some(with_r(c, step_low(c.r, d)))
      [] cursor = 2 -> Some(with_g(c, step_high(c.g, 16 * d)))
      [] cursor = 3 -> Some(with_g(c, step_low(c.g, d)))
      [] cursor = 4 -> Some(with_b(c, step_high(c.b, 16 * d)))
      [] cursor = 5 -> Some(with_b(c, step_low(c.b, d)))
      [] OTHER -> None

-----------------------------------------------------------------------------
(* ThemeSetting (theme.rs:335-347) and ColorEditState (theme.rs:370-386) *)

DarkMode == 0
EnableBoxArt == 1
HighlightColor == 2
ForegroundColor == 3
BackgroundColor == 4
ButtonAColor == 5
ButtonBColor == 6
ButtonXColor == 7
ButtonYColor == 8
ResetToDefault == 9
ThemeSetting_COUNT == 10

\* impl From<Color> for ColorEditState
ColorEditState(c) == [color |-> c, selected |-> 0]

\* Stylesheet::default(): the colors the system ships with.
Stylesheet_default ==
    [enable_box_art   |-> TRUE,
     highlight_color  |-> Color(151, 135, 187),
     foreground_color |-> Color(255, 255, 255),
     background_color |-> Color(0, 0, 0),
     button_a_color   |-> Color(235, 26, 29),
     button_b_color   |-> Color(254, 206, 21),
     button_x_color   |-> Color(7, 73, 180),
     button_y_color   |-> Color(0, 141, 69)]

\* Stylesheet::load(): what the user saved earlier; two saved themes stand
\* for it, the shipped one and a customised one.
SavedStylesheets ==
    {Stylesheet_default,
     [enable_box_art   |-> FALSE,
      highlight_color  |-> Color(26, 43, 60),
      foreground_color |-> Color(240, 143, 15),
      background_color |-> Color(16, 128, 255),
      button_a_color   |-> Color(1, 2, 3),
      button_b_color   |-> Color(171, 205, 239),
      button_x_color   |-> Color(127, 0, 159),
      button_y_color   |-> Color(255, 255, 0)]}

\* SaveStylesheet(Box::new(self.stylesheet.clone()))
SaveStylesheet(s) == [type |-> "SaveStylesheet", stylesheet |-> s]

\* A commit whose ButtonXColor arm writes the neighbouring field.
commit_color_wrong_field(s, sel, color) ==
    CASE sel = HighlightColor  -> [s EXCEPT !.highlight_color = color]
      [] sel = ForegroundColor -> [s EXCEPT !.foreground_color = color]
      [] sel = BackgroundColor -> [s EXCEPT !.background_color = color]
      [] sel = ButtonAColor    -> [s EXCEPT !.button_a_color = color]
      [] sel = ButtonBColor    -> [s EXCEPT !.button_b_color = color]
      [] sel = ButtonXColor    -> [s EXCEPT !.button_y_color = color]
      [] sel = ButtonYColor    -> [s EXCEPT !.button_y_color = color]
      [] OTHER -> s

\* theme.rs:39-66: select_entry with a color edit in progress (the edit was
\* taken out of self.selected_color): the stylesheet after the commit.
commit_color(s, sel, color) ==
    CASE sel = HighlightColor  -> [s EXCEPT !.highlight_color = color]
      [] sel = ForegroundColor -> [s EXCEPT !.foreground_color = color]
      [] sel = BackgroundColor -> [s EXCEPT !.background_color = color]
      [] sel = ButtonAColor    -> [s EXCEPT !.button_a_color = color]
      [] sel = ButtonBColor    -> [s EXCEPT !.button_b_color = color]
      [] sel = ButtonXColor    -> [s EXCEPT !.button_x_color = color]
      [] sel = ButtonYColor    -> [s EXCEPT !.button_y_color = color]
      [] OTHER -> s   \* the two warn!() arms

\* An entry_color whose ForegroundColor arm reads the highlight color.
entry_color_wrong_field(s, sel) ==
    CASE sel = HighlightColor  -> s.highlight_color
      [] sel = ForegroundColor -> s.highlight_color
      [] sel = BackgroundColor -> s.background_color
      [] sel = ButtonAColor    -> s.button_a_color
      [] sel = ButtonBColor    -> s.button_b_color
      [] sel = ButtonXColor    -> s.button_x_color
      [] sel = ButtonYColor    -> s.button_y_color

\* The stylesheet field a color entry edits (theme.rs:82-109).
entry_color(s, sel) ==
    CASE sel = HighlightColor  -> s.highlight_color
      [] sel = ForegroundColor -> s.foreground_color
      [] sel = BackgroundColor -> s.background_color
      [] sel = ButtonAColor    -> s.button_a_color
      [] sel = ButtonBColor    -> s.button_b_color
      [] sel = ButtonXColor    -> s.button_x_color
      [] sel = ButtonYColor    -> s.button_y_color

\* The state of a SettingsThemeState as a record, with what the call returns.
ThemeState(s, sel, sc, cr) ==
    [stylesheet |-> s, selected |-> sel, selected_color |-> sc, confirm_reset |-> cr]

Returned(st, cmd, rd) ==
    [state |-> st, command |-> cmd, redraw |-> rd, panic |-> FALSE]

\* A reset that does not wait for the confirmation.
reset_entry_unconfirmed(st) ==
    [state |-> [st EXCEPT !.stylesheet = Stylesheet_default],
     command |-> Some(SaveStylesheet(Stylesheet_default))]

\* A reset that restores the defaults without returning the command that
\* persists them.
reset_entry_unsaved(st) ==
    IF st.confirm_reset
    THEN [state |-> [st EXCEPT !.stylesheet = Stylesheet_default],
          command |-> None]
    ELSE [state |-> [st EXCEPT !.confirm_reset = TRUE],
          command |-> None]

\* theme.rs:110-120: the ResetToDefault arm of select_entry.
reset_entry(st) ==
    IF st.confirm_reset
    THEN [state |-> [st EXCEPT !.stylesheet = Stylesheet_default],
          command |-> Some(SaveStylesheet(Stylesheet_default))]
    ELSE [state |-> [st EXCEPT !.confirm_reset = TRUE],
          command |-> None]

\* A dark mode toggle that inverts the highlight color as well.
toggle_dark_mode_all_colors(s) ==
    [s EXCEPT !.foreground_color = invert(s.foreground_color),
              !.background_color = invert(s.background_color),
              !.highlight_color = invert(s.highlight_color)]

\* theme.rs:69-72: the DarkMode arm of select_entry on the stylesheet.
toggle_dark_mode(s) ==
    [s EXCEPT !.foreground_color = invert(s.foreground_color),
              !.background_color = invert(s.background_color)]

\* A box art entry that switches box art on instead of flipping it.
toggle_box_art_switch_on(s) == [s EXCEPT !.enable_box_art = TRUE]

\* theme.rs:76-78: the EnableBoxArt arm of select_entry on the stylesheet.
toggle_box_art(s) == [s EXCEPT !.enable_box_art = ~s.enable_box_art]

\* theme.rs:39-127
select_entry(st, sel) ==
    IF st.selected_color # None
    THEN LET color == st.selected_color[1].color
             s2 == commit_color(st.stylesheet, sel, color)
         IN  [state |-> [st EXCEPT !.selected_color = None, !.stylesheet = s2],
              command |-> Some(SaveStylesheet(s2))]
    ELSE CASE sel = DarkMode ->
                LET s2 == toggle_dark_mode(st.stylesheet)
                IN  [state |-> [st EXCEPT !.stylesheet = s2],
                     command |-> Some(SaveStylesheet(s2))]
           [] sel = EnableBoxArt ->
                LET s2 == toggle_box_art(st.stylesheet)
                IN  [state |-> [st EXCEPT !.stylesheet = s2],
                     command |-> Some(SaveStylesheet(s2))]
           [] sel \in HighlightColor .. ButtonYColor ->
                [state |-> [st EXCEPT !.selected_color =
                                Some(ColorEditState(entry_color(st.stylesheet, sel)))],
                 command |-> None]
           [] sel = ResetToDefault -> reset_entry(st)
           [] OTHER -> [state |-> st, command |-> None]

\* theme.rs:236 / 307 / 328: Ok((self.select_entry(self.selected)?, true))
accept(st) ==
    LET r == select_entry(st, st.selected)
    IN  Returned(r.state, r.command, TRUE)

\* theme.rs:245-298: Up (d = 1) or Down (d = -1) in the color editor.
step_digit(st, d) ==
    LET edit == st.selected_color[1]
        c2 == step_color(edit.color, edit.selected, d)
    IN  IF c2 = None
        THEN [Returned(st, None, FALSE) EXCEPT !.panic = TRUE]
        ELSE Returned([st EXCEPT !.selected_color = Some([edit EXCEPT !.color = c2[1]])],
                      None, TRUE)

\* A cursor move that does not ask for a redraw.
move_cursor_without_redraw(st, d) ==
    LET edit == st.selected_color[1]
    IN  Returned([st EXCEPT !.selected_color =
                      Some([edit EXCEPT !.selected = clamp(edit.selected + d, 0, 5)])],
                 None, FALSE)

\* A cursor move that lands on the list selection (self.selected) instead of
\* the digit cursor (state.selected).
move_cursor_on_selection(st, d) ==
    Returned([st EXCEPT !.selected = clamp(st.selected + d, 0, 5)], None, TRUE)

\* A cursor move that wraps around the six digits.
move_cursor_wrapping(st, d) ==
    LET edit == st.selected_color[1]
    IN  Returned([st EXCEPT !.selected_color =
                      Some([edit EXCEPT !.selected = rem_euclid(edit.selected + d, 6)])],
                 None, TRUE)

\* theme.rs:299-306: Left (d = -1) or Right (d = 1) in the color editor.
move_cursor(st, d) ==
    LET edit == st.selected_color[1]
    IN  Returned([st EXCEPT !.selected_color =
                      Some([edit EXCEPT !.selected = clamp(edit.selected + d, 0, 5)])],
                 None, TRUE)

\* A list navigation that stops at the first and the last entry.
move_selection_clamped(st, d) ==
    Returned([st EXCEPT !.selected = clamp(st.selected + d, 0, ThemeSetting_COUNT - 1)],
             None, TRUE)

\* theme.rs:316-326: Up (d = -1) or Down (d = 1) while browsing.
move_selection(st, d) ==
    Returned([st EXCEPT !.selected = rem_euclid(st.selected + d, ThemeSetting_COUNT)],
             None, TRUE)

\* A disarm that lets Up and Down through to the list navigation.
disarm_and_navigate(st, e) ==
    LET st2 == [st EXCEPT !.confirm_reset = FALSE]
    IN  IF e.key = "Up" THEN move_selection(st2, -1)
        ELSE IF e.key = "Down" THEN move_selection(st2, 1)
        ELSE Returned(st2, None, TRUE)

\* theme.rs:237-240: any other Pressed key while the reset is armed.
disarm(st, e) == Returned([st EXCEPT !.confirm_reset = FALSE], None, TRUE)

\* A cancel that writes the working color back before leaving the editor.
cancel_after_commit(st) ==
    Returned(select_entry(st, st.selected).state, None, TRUE)

\* theme.rs:308-311: Pressed(B) in the color editor.
cancel(st) == Returned([st EXCEPT !.selected_color = None], None, TRUE)

\* The pattern KeyEvent::Pressed(k) | KeyEvent::Autorepeat(k).
IsStep(e, k) == e.key = k /\ e.kind \in {"Pressed", "Autorepeat"}

\* An accept pattern that takes the autorepeat of A as well.
IsAcceptOrRepeat(e) == IsStep(e, "A")

\* theme.rs:236 / 307 / 328: the pattern KeyEvent::Pressed(Key::A).
IsAccept(e) == e = Pressed("A")

\* An unhandled arm that asks for a redraw.
unhandled_with_redraw(st) == Returned(st, None, TRUE)

\* theme.rs:241 / 312 / 329: the arms _ => Ok((None, false)).
unhandled(st) == Returned(st, None, FALSE)

\* theme.rs:233-333: SettingsThemeState::handle_key_event as a function of
\* the state and the event.
theme_handle_key_event(st, e) ==
    IF st.confirm_reset
    THEN CASE IsAccept(e) -> accept(st)
           [] e.kind = "Pressed" /\ e.key # "A" -> disarm(st, e)
           [] OTHER -> unhandled(st)
    ELSE IF st.selected_color # None
    THEN CASE IsStep(e, "Up") -> step_digit(st, 1)
           [] IsStep(e, "Down") -> step_digit(st, -1)
           [] IsStep(e, "Left") -> move_cursor(st, -1)
           [] IsStep(e, "Right") -> move_cursor(st, 1)
           [] IsAccept(e) -> accept(st)
           [] e = Pressed("B") -> cancel(st)
           [] OTHER -> unhandled(st)
    ELSE CASE IsStep(e, "Up") -> move_selection(st, -1)
           [] IsStep(e, "Down") -> move_selection(st, 1)
           [] IsAccept(e) -> accept(st)
           [] OTHER -> unhandled(st)

\* The SettingsThemeState the variables hold.
Theme == ThemeState(stylesheet, selected, selected_color, confirm_reset)

EditingColor == selected_color # None
Browsing == selected_color = None /\ ~confirm_reset

\* One call of SettingsThemeState::handle_key_event.
HandleKeyEvent(e) ==
    /\ ~theme_panic
    /\ LET r == theme_handle_key_event(Theme, e)
       IN  /\ stylesheet' = r.state.stylesheet
           /\ selected' = r.state.selected
           /\ selected_color' = r.state.selected_color
           /\ confirm_reset' = r.state.confirm_reset
           /\ command' = r.command
           /\ redraw' = r.redraw
           /\ theme_panic' = r.panic
    /\ key_event' = Some(e)

\* SettingsThemeState::new (theme.rs:29-37)
ThemeInit ==
    /\ stylesheet \in SavedStylesheets
    /\ selected = 0
    /\ selected_color = None
    /\ confirm_reset = FALSE
    /\ key_event = None
    /\ command = None
    /\ redraw = FALSE
    /\ theme_panic = FALSE
    /\ calls = 0
    /\ entered = None

DigitIdle == origin = Color(0, 0, 0) /\ net = 0

\* The theme editor before it is constructed, for the specifications of
\* the Display view.
ThemeIdle ==
    /\ stylesheet = Stylesheet_default
    /\ selected = 0
    /\ selected_color = None
    /\ confirm_reset = FALSE
    /\ key_event = None
    /\ command = None
    /\ redraw = FALSE
    /\ theme_panic = FALSE
    /\ calls = 0
    /\ entered = None

vars == <<theme_vars, digit_vars, display_vars>>

-----------------------------------------------------------------------------
(* The Display view (display.rs) and its children *)

\* common::command::Command as display.rs uses it.
ValueChanged(i, v) == [type |-> "ValueChanged", index |-> i, value |-> v]
CloseView == [type |-> "CloseView"]
SaveDisplaySettings(s) == [type |-> "SaveDisplaySettings", settings |-> s]

\* DisplaySettings (display.rs:57-72 reads its four fields).
DisplaySettings(l, h, s, c) ==
    [luminance |-> l, hue |-> h, saturation |-> s, contrast |-> c]

\* DisplaySettings::load(): what was saved earlier; the settings as shipped
\* and one changed set stand for it.
LoadedSettings == {DisplaySettings(50, 50, 50, 50), DisplaySettings(100, 0, 50, 50)}

\* The button hints of display.rs:106-119.
EditHint == "button-edit"
BackHint == "button-back"

\* Row::remove(index): the removed child, if there is one at index, and the
\* row without it.
Row_remove(row, i) ==
    IF i < Len(row)
    THEN [removed |-> Some(row[i + 1]),
          row |-> SubSeq(row, 1, i) \o SubSeq(row, i + 2, Len(row))]
    ELSE [removed |-> None, row |-> row]

\* Row::insert(index, child)
Row_insert(row, i, x) == SubSeq(row, 1, i) \o <<x>> \o SubSeq(row, i + 1, Len(row))

\* The rows of the list built at display.rs:47-84: rows 0..3 are Percentage
\* widgets, row 4 is the screen-resolution Label.
ListLength == 5
PercentageRows == 0 .. 3

\* The fixed increment of a Percentage step, and its bounds.  The increment
\* is fixed but its value is not given; 50 keeps the values to 0, 50, 100.
PercentStep == 50
PercentMin == 0
PercentMax == 100

\* Percentage: a step gesture adds or subtracts the increment, saturating.
percentage_step(v, d) == clamp(v + d * PercentStep, PercentMin, PercentMax)

\* SettingsList::new with the widgets of display.rs:54-84, then
\* list.select(state.selected) of display.rs:87-89.
SettingsList_new(s, sel) ==
    [selected |-> sel,
     editing |-> FALSE,
     values |-> <<s.luminance, s.hue, s.saturation, s.contrast>>]

ListResult(l, c, q) == [list |-> l, consumed |-> c, queued |-> q]

\* SettingsList::handle_key_event: the list after the event, whether it
\* consumed the event, and what it appended to the bubble queue.
list_handle_key_event(l, e) ==
    IF l.editing
    THEN CASE IsStep(e, "Left") \/ IsStep(e, "Right") ->
                LET old == l.values[l.selected + 1]
                    new == percentage_step(old, IF e.key = "Right" THEN 1 ELSE -1)
                IN  ListResult([l EXCEPT !.values[l.selected + 1] = new], TRUE,
                               IF new # old
                               THEN <<ValueChanged(l.selected, new)>>
                               ELSE <<>>)
           [] e = Pressed("A") \/ e = Pressed("B") ->
                ListResult([l EXCEPT !.editing = FALSE], TRUE, <<>>)
           [] OTHER -> ListResult(l, FALSE, <<>>)
    ELSE CASE IsStep(e, "Up") ->
                ListResult([l EXCEPT !.selected = rem_euclid(l.selected - 1, ListLength)],
                           TRUE, <<>>)
           [] IsStep(e, "Down") ->
                ListResult([l EXCEPT !.selected = rem_euclid(l.selected + 1, ListLength)],
                           TRUE, <<>>)
           [] e = Pressed("A") ->
                IF l.selected \in PercentageRows
                THEN ListResult([l EXCEPT !.editing = TRUE], TRUE, <<>>)
                ELSE ListResult(l, TRUE, <<>>)
           [] OTHER -> ListResult(l, FALSE, <<>>)

\* display.rs:184-188: the Edit hint is taken out of the row while the
\* selection is on row 4 and put back when it leaves.
update_hints(l, hints, eb) ==
    IF l.selected = 4
    THEN LET r == Row_remove(hints, 0)
         IN  [button_hints |-> r.row, edit_button |-> r.removed]
    ELSE IF eb # None
         THEN [button_hints |-> Row_insert(hints, 0, eb[1]), edit_button |-> None]
         ELSE [button_hints |-> hints, edit_button |-> eb]

\* The match of display.rs:191-196 with the arms of hue and saturation
\* writing each other's field.
set_setting_swapped(s, i, v) ==
    CASE i = 0 -> Some([s EXCEPT !.luminance = as_u8(v)])
      [] i = 1 -> Some([s EXCEPT !.saturation = as_u8(v)])
      [] i = 2 -> Some([s EXCEPT !.hue = as_u8(v)])
      [] i = 3 -> Some([s EXCEPT !.contrast = as_u8(v)])
      [] OTHER -> None

\* display.rs:191-196: the match on the index of a ValueChanged; <<>> stands
\* for the unreachable!("Invalid index") arm.
set_setting(s, i, v) ==
    CASE i = 0 -> Some([s EXCEPT !.luminance = as_u8(v)])
      [] i = 1 -> Some([s EXCEPT !.hue = as_u8(v)])
      [] i = 2 -> Some([s EXCEPT !.saturation = as_u8(v)])
      [] i = 3 -> Some([s EXCEPT !.contrast = as_u8(v)])
      [] OTHER -> None

\* A loop that walks the queue without popping: the entries are applied and
\* stay on the queue.
RECURSIVE drain_without_pop(_, _)
drain_without_pop(q, d) ==
    IF q = <<>>
    THEN d
    ELSE LET cmd == Head(q)
             d1 == [d EXCEPT !.popped = Append(@, cmd)]
         IN  IF cmd.type = "ValueChanged"
             THEN LET s2 == set_setting(d.settings, cmd.index, cmd.value)
                  IN  IF s2 = None
                      THEN [d1 EXCEPT !.panic = TRUE]
                      ELSE drain_without_pop(Tail(q),
                                 [d1 EXCEPT !.settings = s2[1],
                                            !.has_changed = TRUE,
                                            !.sent = Append(@, SaveDisplaySettings(s2[1]))])
             ELSE drain_without_pop(Tail(q), d1)

\* display.rs:189-207: the drain loop on the queue q, from the loop state d
\* (the settings, has_changed, and what was popped and sent so far).
RECURSIVE drain(_, _)
drain(q, d) ==
    IF q = <<>>
    THEN [d EXCEPT !.bubble = q]
    ELSE LET cmd == Head(q)
             d1 == [d EXCEPT !.popped = Append(@, cmd)]
         IN  IF cmd.type = "ValueChanged"
             THEN LET s2 == set_setting(d.settings, cmd.index, cmd.value)
                  IN  IF s2 = None
                      THEN [d1 EXCEPT !.bubble = Tail(q), !.panic = TRUE]
                      ELSE drain(Tail(q),
                                 [d1 EXCEPT !.settings = s2[1],
                                            !.has_changed = TRUE,
                                            !.sent = Append(@, SaveDisplaySettings(s2[1]))])
             ELSE drain(Tail(q), d1)

\* A handler that lets Pressed(B) close the view before the list sees it.
offer_after_back(l, e) ==
    IF e = Pressed("B") THEN ListResult(l, FALSE, <<>>) ELSE list_handle_key_event(l, e)

\* display.rs:179-183: the event is offered to the list first.
offer_to_list(l, e) == list_handle_key_event(l, e)

\* display.rs:173-218: Display::handle_key_event on the view v, the event e
\* and the bubble queue q the caller passes.
display_handle_key_event(v, e, q) ==
    LET r == offer_to_list(v.list, e)
        q1 == q \o r.queued
    IN  IF r.consumed
        THEN LET h == update_hints(r.list, v.button_hints, v.edit_button)
                 d == drain(q1, [settings |-> v.settings, has_changed |-> v.has_changed,
                                 popped |-> <<>>, sent |-> <<>>,
                                 bubble |-> q1, panic |-> FALSE])
             IN  [view |-> [settings |-> d.settings, list |-> r.list,
                            button_hints |-> h.button_hints,
                            edit_button |-> h.edit_button,
                            has_changed |-> d.has_changed],
                  bubble |-> d.bubble, consumed |-> TRUE,
                  handled |-> IF d.panic THEN None ELSE Some(TRUE),
                  panic |-> d.panic, popped |-> d.popped, pushed |-> <<>>,
                  sent |-> d.sent]
        ELSE IF e = Pressed("B")
        THEN [view |-> [v EXCEPT !.list = r.list],
              bubble |-> Append(q1, CloseView), consumed |-> FALSE,
              handled |-> Some(TRUE), panic |-> FALSE, popped |-> <<>>,
              pushed |-> <<CloseView>>, sent |-> <<>>]
        ELSE [view |-> [v EXCEPT !.list = r.list],
              bubble |-> q1, consumed |-> FALSE,
              handled |-> Some(FALSE), panic |-> FALSE, popped |-> <<>>,
              pushed |-> <<>>, sent |-> <<>>]

\* The Display the variables hold.
View ==
    [settings |-> settings, list |-> list, button_hints |-> button_hints,
     edit_button |-> edit_button, has_changed |-> has_changed]

\* One call of Display::handle_key_event with the bubble queue q; the sends
\* on the command sink succeed (its receiver lives as long as the launcher).
DisplayHandleKeyEvent(e, q) ==
    /\ ~display_panic
    /\ LET r == display_handle_key_event(View, e, q)
       IN  /\ settings' = r.view.settings
           /\ list' = r.view.list
           /\ button_hints' = r.view.button_hints
           /\ edit_button' = r.view.edit_button
           /\ has_changed' = r.view.has_changed
           /\ bubble' = r.bubble
           /\ consumed' = r.consumed
           /\ handled' = r.handled
           /\ display_panic' = r.panic
           /\ popped' = r.popped
           /\ pushed' = r.pushed
           /\ sent' = r.sent
           /\ last_saved' = IF r.sent = <<>> THEN last_saved
                            ELSE Some(r.sent[Len(r.sent)].settings)
    /\ event' = Some(e)

\* The call state before the first call.
NoCallYet ==
    /\ bubble = <<>>
    /\ event = None
    /\ consumed = FALSE
    /\ handled = None
    /\ display_panic = FALSE
    /\ popped = <<>>
    /\ pushed = <<>>
    /\ sent = <<>>
    /\ last_saved = None
    /\ queued_calls = 0

\* Display::new (display.rs:32-133), with the selection a saved ChildState
\* restores (display.rs:87-89).
DisplayInit ==
    /\ settings \in LoadedSettings
    /\ \E sel \in 0 .. ListLength - 1 : list = SettingsList_new(settings, sel)
    /\ button_hints = <<EditHint, BackHint>>
    /\ edit_button = None
    /\ has_changed = FALSE
    /\ NoCallYet

\* The Display view before it is constructed, for the specifications of the
\* theme editor.
DisplayIdle ==
    /\ settings = DisplaySettings(50, 50, 50, 50)
    /\ list = SettingsList_new(settings, 0)
    /\ button_hints = <<EditHint, BackHint>>
    /\ edit_button = None
    /\ has_changed = FALSE
    /\ NoCallYet

-----------------------------------------------------------------------------
(* Spec: the theme editor driven by key events *)

Init == ThemeInit /\ DigitIdle /\ DisplayIdle

KeyPress ==
    /\ calls < MaxCalls
    /\ \E e \in KeyEvents : HandleKeyEvent(e)
    /\ calls' = calls + 1
    /\ entered' = IF selected_color = None /\ selected_color' # None
                  THEN Some([stylesheet |-> stylesheet, selected |-> selected])
                  ELSE entered
    /\ UNCHANGED <<digit_vars, display_vars>>

Next == KeyPress

Spec == Init /\ [][Next]_vars

-----------------------------------------------------------------------------
(* SpecDigit: the digit stepping of the color editor on its own.  A color  *)
(* edit is open on some working color with the cursor on some digit, and   *)
(* only Up and Down events arrive.  The digit under the cursor takes every *)
(* byte value; the two other bytes are those of a color of SampleBytes.    *)

SampleBytes == {Color(26, 43, 60), Color(231, 212, 195)}

DigitColors(cursor) ==
    {Color(x, s.g, s.b) : x \in (IF cursor \in {0, 1} THEN Bytes ELSE {}),
                          s \in SampleBytes}
    \cup {Color(s.r, x, s.b) : x \in (IF cursor \in {2, 3} THEN Bytes ELSE {}),
                               s \in SampleBytes}
    \cup {Color(s.r, s.g, x) : x \in (IF cursor \in {4, 5} THEN Bytes ELSE {}),
                               s \in SampleBytes}

InitDigit ==
    /\ stylesheet = Stylesheet_default
    /\ selected = HighlightColor
    /\ \E cursor \in 0 .. 5 : \E c \in DigitColors(cursor) :
          /\ selected_color = Some([color |-> c, selected |-> cursor])
          /\ origin = c
    /\ net = 0
    /\ confirm_reset = FALSE
    /\ key_event = None
    /\ command = None
    /\ redraw = FALSE
    /\ theme_panic = FALSE
    /\ calls = 0
    /\ entered = Some([stylesheet |-> Stylesheet_default, selected |-> HighlightColor])
    /\ DisplayIdle

DigitUp ==
    /\ net < MaxRun
    /\ \E e \in {Pressed("Up"), Autorepeat("Up")} : HandleKeyEvent(e)
    /\ net' = net + 1
    /\ UNCHANGED <<origin, calls, entered, display_vars>>

DigitDown ==
    /\ net > 0 - MaxRun
    /\ \E e \in {Pressed("Down"), Autorepeat("Down")} : HandleKeyEvent(e)
    /\ net' = net - 1
    /\ UNCHANGED <<origin, calls, entered, display_vars>>

NextDigit == DigitUp \/ DigitDown

SpecDigit == InitDigit /\ [][NextDigit]_vars

-----------------------------------------------------------------------------
(* SpecDisplay: the Display view driven by key events.  The caller hands   *)
(* over an empty bubble queue with every event (a queue is drained before  *)
(* the enclosing call returns).                                            *)

InitDisplay == ThemeIdle /\ DigitIdle /\ DisplayInit

DisplayKeyPress ==
    /\ \E e \in KeyEvents : DisplayHandleKeyEvent(e, <<>>)
    /\ UNCHANGED <<theme_vars, digit_vars, queued_calls>>

NextDisplay == DisplayKeyPress

SpecDisplay == InitDisplay /\ [][NextDisplay]_vars

-----------------------------------------------------------------------------
(* SpecDisplayQueue: Display::handle_key_event applied to a bubble queue   *)
(* that already holds entries when the call starts: none, an entry with an *)
(* index outside 0..3, an entry that repeats the value its field holds     *)
(* after construction, and several entries in a row.                       *)

CallerQueues ==
    {<<>>,
     <<ValueChanged(4, 50)>>,
     <<ValueChanged(3, 50)>>,
     <<ValueChanged(2, 0), CloseView, ValueChanged(2, 100)>>,
     <<ValueChanged(0, 100), ValueChanged(4, 0), ValueChanged(1, 0)>>}

DisplayKeyPressQueued ==
    /\ queued_calls < MaxQueuedCalls
    /\ \E e \in KeyEvents : \E q \in CallerQueues : DisplayHandleKeyEvent(e, q)
    /\ queued_calls' = queued_calls + 1
    /\ UNCHANGED <<theme_vars, digit_vars>>

NextDisplayQueue == DisplayKeyPressQueued

SpecDisplayQueue == InitDisplay /\ [][NextDisplayQueue]_vars

-----------------------------------------------------------------------------
(* Properties of the theme editor *)

\* The event of the call that is being made in a step.
ThisEvent == key_event'[1]

\* C1: on the ResetToDefault entry, outside a color edit, Pressed(A) with
\* confirm_reset clear sets confirm_reset, leaves the stylesheet alone and
\* returns no command; Pressed(A) with confirm_reset set (the immediately
\* following one included) replaces the stylesheet with Stylesheet::default()
\* and returns one SaveStylesheet carrying that default.
C1_ResetNeedsTwoAccepts ==
    [][(/\ ThisEvent = Pressed("A")
        /\ selected = ResetToDefault
        /\ selected_color = None)
       => IF ~confirm_reset
          THEN /\ confirm_reset'
               /\ stylesheet' = stylesheet
               /\ command' = None
          ELSE /\ stylesheet' = Stylesheet_default
               /\ command' = Some(SaveStylesheet(Stylesheet_default))]_vars

\* C1 witness: Up to the reset entry, Pressed(A) to arm, and the second
\* Pressed(A) has just reset the stylesheet and returned the SaveStylesheet.
C1_Witness ==
    /\ key_event = Some(Pressed("A"))
    /\ selected = ResetToDefault
    /\ calls = 3
    /\ stylesheet = Stylesheet_default
    /\ command = Some(SaveStylesheet(Stylesheet_default))

\* C2: the confirm-reset flag is one-shot: right after the call that executed
\* the reset (Pressed(A) on the reset entry returning a SaveStylesheet),
\* confirm_reset is false again.
C2_ResetConsumesFlag ==
    (/\ key_event = Some(Pressed("A"))
     /\ selected = ResetToDefault
     /\ command # None)
    => ~confirm_reset

\* C3: while confirm_reset is set, Pressed(k) for k other than A clears the
\* flag, returns no command and leaves the stylesheet, the selected index and
\* the color-edit state as they were.
C3_OtherKeyDisarms ==
    [][(/\ confirm_reset
        /\ ThisEvent.kind = "Pressed"
        /\ ThisEvent.key # "A")
       => /\ ~confirm_reset'
          /\ command' = None
          /\ stylesheet' = stylesheet
          /\ selected' = selected
          /\ selected_color' = selected_color]_vars

\* C3 witness: Pressed(B) has just disarmed the reset.  B is handled (redraw
\* is true) on the reset entry only while the reset is armed.
C3_Witness ==
    /\ key_event = Some(Pressed("B"))
    /\ redraw
    /\ selected = ResetToDefault
    /\ ~confirm_reset
    /\ selected_color = None

\* The stylesheet field a color entry names.
ColorField(sel) ==
    CASE sel = HighlightColor  -> "highlight_color"
      [] sel = ForegroundColor -> "foreground_color"
      [] sel = BackgroundColor -> "background_color"
      [] sel = ButtonAColor    -> "button_a_color"
      [] sel = ButtonBColor    -> "button_b_color"
      [] sel = ButtonXColor    -> "button_x_color"
      [] sel = ButtonYColor    -> "button_y_color"
      [] OTHER                 -> "none"

StylesheetFields == DOMAIN Stylesheet_default

\* C6: Pressed(A) in the color editor writes the working color into the
\* stylesheet field of the entry that was selected when the edit was entered,
\* changes no other field, closes the editor and returns one SaveStylesheet
\* carrying the updated stylesheet.
C6_CommitWritesEditedField ==
    [][(/\ selected_color # None
        /\ ~confirm_reset
        /\ ThisEvent = Pressed("A"))
       => /\ entered # None
          /\ ColorField(entered[1].selected) \in StylesheetFields
          /\ \A f \in StylesheetFields :
                stylesheet'[f] = IF f = ColorField(entered[1].selected)
                                 THEN selected_color[1].color
                                 ELSE stylesheet[f]
          /\ selected_color' = None
          /\ command' = Some(SaveStylesheet(stylesheet'))]_vars

\* C6 witness: a commit on ButtonXColor after one digit step (7 -> 23 in the
\* red byte of the shipped button_x_color).
C6_Witness ==
    /\ key_event = Some(Pressed("A"))
    /\ selected = ButtonXColor
    /\ selected_color = None
    /\ stylesheet = [Stylesheet_default EXCEPT !.button_x_color = Color(23, 73, 180)]
    /\ command = Some(SaveStylesheet(stylesheet))

\* C7: Pressed(B) in the color editor closes the editor, returns no command,
\* and leaves the stylesheet and the selected index as they were when the
\* edit was entered, whatever digit edits and cursor moves came in between.
C7_CancelDiscards ==
    [][(/\ selected_color # None
        /\ ~confirm_reset
        /\ ThisEvent = Pressed("B"))
       => /\ selected_color' = None
          /\ command' = None
          /\ entered # None
          /\ stylesheet' = entered[1].stylesheet
          /\ selected' = entered[1].selected]_vars

\* C7 witness: Pressed(B) has just closed a color edit that was open for at
\* least two other calls (two calls reach a color entry, one enters it).
C7_Witness ==
    /\ key_event = Some(Pressed("B"))
    /\ redraw
    /\ selected \in HighlightColor .. ButtonYColor
    /\ selected_color = None
    /\ entered # None
    /\ stylesheet = entered[1].stylesheet
    /\ calls >= 6

-----------------------------------------------------------------------------
(* Properties of the digit stepping *)

\* Hex digit i (0 the leftmost) of the RRGGBB form of a color.
Digit(c, i) ==
    CASE i = 0 -> c.r \div 16
      [] i = 1 -> c.r % 16
      [] i = 2 -> c.g \div 16
      [] i = 3 -> c.g % 16
      [] i = 4 -> c.b \div 16
      [] i = 5 -> c.b % 16

\* C4: in the color editor, Up (Pressed or Autorepeat) turns the hex digit
\* under the cursor into (digit + 1) mod 16 and Down into (digit - 1) mod 16;
\* the five other digits keep their values and the color stays 24-bit.
C4_DigitStepNoCarry ==
    [][(/\ selected_color # None
        /\ ~confirm_reset
        /\ (IsStep(ThisEvent, "Up") \/ IsStep(ThisEvent, "Down")))
       => /\ selected_color' # None
          /\ LET cursor == selected_color[1].selected
                 c == selected_color[1].color
                 c2 == selected_color'[1].color
                 d == IF ThisEvent.key = "Up" THEN 1 ELSE -1
             IN  /\ cursor \in 0 .. 5
                 /\ selected_color'[1].selected = cursor
                 /\ {c2.r, c2.g, c2.b} \subseteq Bytes
                 /\ \A i \in 0 .. 5 :
                       Digit(c2, i) = IF i = cursor
                                      THEN (Digit(c, i) + d) % 16
                                      ELSE Digit(c, i)]_vars

\* C4 witness: #1A2B3C with the cursor on digit 1 and one Down is #192B3C.
C4_Witness ==
    /\ origin = Color(26, 43, 60)
    /\ net = -1
    /\ key_event = Some(Pressed("Down"))
    /\ selected_color = Some([color |-> Color(25, 43, 60), selected |-> 1])

\* C5: stepping one digit is circular and invertible: whenever the Ups and
\* the Downs taken at a fixed cursor differ by a multiple of 16 (16 Ups in a
\* row, 16 Downs in a row, an Up then a Down, a Down then an Up), the working
\* color is the one the stepping started from.
C5_StepsCloseAndInvert ==
    (selected_color # None /\ net % 16 = 0) => selected_color[1].color = origin

\* C5 witness: sixteen Ups on the low digit of a byte of 0x80 or more.
C5_Witness ==
    /\ net = 16
    /\ key_event = Some(Autorepeat("Up"))
    /\ selected_color # None
    /\ selected_color[1].selected = 1
    /\ origin.r >= 128
    /\ selected_color[1].color = origin

-----------------------------------------------------------------------------
(* Properties of the Display view *)

\* A popped entry that names a setting, and one whose index names none.
IsSettingChange(c) == c.type = "ValueChanged" /\ c.index \in 0 .. 3
IsInvalidChange(c) == c.type = "ValueChanged" /\ c.index \notin 0 .. 3

\* C8: an out-of-range setting index is a no-op and never fatal: a call that
\* drained a ValueChanged whose index is not one of 0..3 still returned
\* normally (handled = true, nothing aborted).
C8_InvalidIndexIsNoOp ==
    (\E k \in 1 .. Len(popped) : IsInvalidChange(popped[k]))
    => (~display_panic /\ handled = Some(TRUE))

\* The DisplaySettings field that setting index i names.
SettingField(i) == <<"luminance", "hue", "saturation", "contrast">>[i + 1]

\* The settings after the setting changes of seq, each setting exactly its
\* own field to its value.
RECURSIVE AfterChanges(_, _)
AfterChanges(s, seq) ==
    IF seq = <<>>
    THEN s
    ELSE AfterChanges([s EXCEPT ![SettingField(Head(seq).index)] = Head(seq).value],
                      Tail(seq))

\* C9: for the ValueChanged(i, v) with i in 0..3 that a call drains, in queue
\* order: the k-th one sets exactly field i to v on top of the ones before it
\* and the k-th send is one SaveDisplaySettings carrying the settings as of
\* that update; nothing else is sent and nothing else changes the settings;
\* and once the call has returned, the last snapshot on the command sink
\* equals the view's settings.
C9_EachChangeAppliedAndSaved ==
    [][LET changes == SelectSeq(popped', IsSettingChange)
       IN  /\ Len(sent') = Len(changes)
           /\ \A k \in 1 .. Len(changes) :
                 sent'[k] = SaveDisplaySettings(
                                AfterChanges(settings, SubSeq(changes, 1, k)))
           /\ settings' = AfterChanges(settings, changes)
           /\ (handled' # None /\ last_saved' # None)
                 => last_saved' = Some(settings')]_vars

\* C9 witness: a call that drained two queued changes of one field, an entry
\* that is no change, and the change the list queued, and sent three
\* snapshots, the last one being the settings the view now holds.
C9_Witness ==
    /\ handled = Some(TRUE)
    /\ Len(popped) = 4
    /\ Len(sent) = 3
    /\ sent[1].settings.saturation = 0
    /\ sent[2].settings.saturation = 100
    /\ sent[3].settings = settings
    /\ settings.luminance # sent[2].settings.luminance
    /\ last_saved = Some(settings)

\* C10: the list gets first refusal.  Every event goes to the list first and
\* the list's state is what the list made of it; Display pushes CloseView
\* exactly when the list did not consume the event and the event is
\* Pressed(B); a consumed event (a consumed Pressed(B) included) returns true
\* with no CloseView on the queue; any other unconsumed event returns false
\* and changes nothing.
C10_ListGetsFirstRefusal ==
    [][LET e == event'[1]
           r == list_handle_key_event(list, e)
       IN  /\ consumed' = r.consumed
           /\ list' = r.list
           /\ (pushed' = <<CloseView>>) <=> (~r.consumed /\ e = Pressed("B"))
           /\ r.consumed =>
                 /\ handled' = Some(TRUE)
                 /\ \A k \in 1 .. Len(bubble') : bubble'[k] # CloseView
           /\ (~r.consumed /\ e = Pressed("B")) =>
                 /\ handled' = Some(TRUE)
                 /\ bubble' = <<CloseView>>
           /\ (~r.consumed /\ e # Pressed("B")) =>
                 /\ handled' = Some(FALSE)
                 /\ pushed' = <<>>
                 /\ bubble' = <<>>
                 /\ UNCHANGED <<settings, list, button_hints, edit_button,
                                has_changed, last_saved>>]_vars

\* C10 witness: the list was editing a percentage and consumed Pressed(B) to
\* leave the edit; Display returned true and pushed nothing.
C10_Witness ==
    /\ event = Some(Pressed("B"))
    /\ consumed
    /\ handled = Some(TRUE)
    /\ pushed = <<>>
    /\ bubble = <<>>
    /\ ~list.editing
    /\ has_changed

\* C11: the bubble queue is intra-call.  With the queue empty when the call
\* starts, every entry the list places on it during the call is popped
\* before the call returns, and what is on the queue at the return is what
\* Display itself pushed: nothing, or one CloseView.
C11_BubbleIsIntraCall ==
    [][LET r == list_handle_key_event(list, event'[1])
       IN  /\ popped' = r.queued
           /\ bubble' = pushed'
           /\ pushed' \in {<<>>, <<CloseView>>}
           /\ handled' # None]_vars

\* C11 witness: the list queued a ValueChanged during the call, Display
\* popped it, and the queue is empty at the return.
C11_Witness ==
    /\ event = Some(Pressed("Right"))
    /\ consumed
    /\ handled = Some(TRUE)
    /\ Len(popped) = 1
    /\ popped[1].type = "ValueChanged"
    /\ sent # <<>>
    /\ bubble = <<>>

\* C12: no spurious persist.  Every SaveDisplaySettings a call sends carries
\* settings that differ from the settings before the update it follows: a
\* drained ValueChanged(i, v) with v equal to what field i already held
\* produces no send.
C12_NoSpuriousPersist ==
    [][\A k \in 1 .. Len(sent') :
          sent'[k].settings # (IF k = 1 THEN settings ELSE sent'[k - 1].settings)]_vars

-----------------------------------------------------------------------------
(* Properties of the theme editor: entries, navigation and modes *)

\* C13: in Browsing on EnableBoxArt, Pressed(A) flips enable_box_art and
\* changes no other stylesheet field, stays in Browsing on the same entry,
\* and returns one SaveStylesheet carrying the stylesheet with the new value.
\* (Each press being a flip of one boolean, two presses restore the
\* stylesheet.)
C13_BoxArtToggles ==
    [][(Browsing /\ selected = EnableBoxArt /\ ThisEvent = Pressed("A"))
       => /\ \A f \in StylesheetFields :
                stylesheet'[f] = IF f = "enable_box_art"
                                 THEN ~stylesheet.enable_box_art
                                 ELSE stylesheet[f]
          /\ selected' = selected
          /\ selected_color' = None
          /\ confirm_reset' = FALSE
          /\ command' = Some(SaveStylesheet(stylesheet'))]_vars

\* C13 witness: the second of two presses on EnableBoxArt, right after
\* construction: the stylesheet is the loaded one again and the command
\* carries it.
C13_Witness ==
    /\ calls = 3
    /\ key_event = Some(Pressed("A"))
    /\ selected = EnableBoxArt
    /\ selected_color = None
    /\ stylesheet \in SavedStylesheets
    /\ command = Some(SaveStylesheet(stylesheet))

\* C14: the selected index is always in 0..9.  In Browsing, Up (pressed or
\* autorepeated) takes 0 to 9 and any other index one down, Down takes 9 to 0
\* and any other index one up; no other event, and no event in another mode,
\* moves the selection.
C14_SelectionWraps ==
    [][LET e == ThisEvent
       IN  /\ selected \in 0 .. ThemeSetting_COUNT - 1
           /\ selected' \in 0 .. ThemeSetting_COUNT - 1
           /\ (Browsing /\ IsStep(e, "Up"))
                 => selected' = IF selected = 0 THEN 9 ELSE selected - 1
           /\ (Browsing /\ IsStep(e, "Down"))
                 => selected' = IF selected = 9 THEN 0 ELSE selected + 1
           /\ ~(Browsing /\ (IsStep(e, "Up") \/ IsStep(e, "Down")))
                 => selected' = selected]_vars

\* C14 witness: Up from entry 0 went to entry 9 and the autorepeat of Down
\* brought the selection back to entry 0.
C14_Witness ==
    /\ calls = 2
    /\ key_event = Some(Autorepeat("Down"))
    /\ selected = 0
    /\ redraw

\* C15: the digit cursor of an open color edit is always in 0..5.  Left and
\* Right (pressed or autorepeated) move it one down or up, staying at 0 and
\* at 5, and leave the working color as it was.
C15_CursorClamps ==
    [][LET e == ThisEvent
           cur == selected_color[1].selected
       IN  /\ selected_color # None => selected_color[1].selected \in 0 .. 5
           /\ selected_color' # None => selected_color'[1].selected \in 0 .. 5
           /\ (EditingColor /\ ~confirm_reset /\ IsStep(e, "Left"))
                 => selected_color' =
                       Some([color |-> selected_color[1].color,
                             selected |-> IF cur = 0 THEN 0 ELSE cur - 1])
           /\ (EditingColor /\ ~confirm_reset /\ IsStep(e, "Right"))
                 => selected_color' =
                       Some([color |-> selected_color[1].color,
                             selected |-> IF cur = 5 THEN 5 ELSE cur + 1])]_vars

\* C15 witness: Left as the first event of a color edit (the fourth call at
\* the earliest): the cursor was 0 and is 0, the working color is the
\* stylesheet field.
C15_Witness ==
    /\ calls = 4
    /\ key_event = Some(Pressed("Left"))
    /\ selected \in {HighlightColor, ButtonYColor}
    /\ selected_color = Some([color |-> stylesheet[ColorField(selected)], selected |-> 0])
    /\ redraw

\* An event outside the input vocabulary: not Pressed or Autorepeat of one of
\* Up, Down, Left, Right, A, B.
OutsideVocabulary(e) ==
    ~(e.kind \in {"Pressed", "Autorepeat"}
      /\ e.key \in {"Up", "Down", "Left", "Right", "A", "B"})

NotHandled ==
    /\ command' = None
    /\ redraw' = FALSE
    /\ UNCHANGED <<stylesheet, selected, selected_color, confirm_reset>>

\* C16 as stated: in every mode an event outside the vocabulary returns
\* (None, false) and leaves the state unchanged.
C16_OutsideVocabularyNotHandled ==
    [][OutsideVocabulary(ThisEvent) => NotHandled]_vars

\* C16 amended: an event outside the vocabulary returns (None, false) and
\* leaves the state unchanged, except for Pressed of such a key while the
\* reset is armed: that clears confirm_reset, returns (None, true) and
\* leaves the rest of the state unchanged.
C16_OutsideVocabularyNotHandledUnlessArmed ==
    [][OutsideVocabulary(ThisEvent)
       => IF confirm_reset /\ ThisEvent.kind = "Pressed"
          THEN /\ confirm_reset' = FALSE
               /\ command' = None
               /\ redraw' = TRUE
               /\ UNCHANGED <<stylesheet, selected, selected_color>>
          ELSE NotHandled]_vars

\* C16 witness: Pressed of a key outside the vocabulary arrived during a
\* color edit after a digit step; it was not handled and the edit is open.
C16_Witness ==
    /\ key_event = Some(Pressed("X"))
    /\ selected_color # None
    /\ selected_color[1].color # stylesheet[ColorField(selected)]
    /\ command = None
    /\ ~redraw

\* C17: a color edit opens exactly on Pressed(A) in Browsing on an entry
\* 2..8; it opens with the cursor at 0 and the working color equal to the
\* entry's stylesheet field, the stylesheet and the selection unchanged and
\* no command; it closes only on Pressed(A) or Pressed(B); Up, Down, Left and
\* Right inside it change neither the stylesheet nor the selection and
\* return no command.
C17_EditEntryAndExit ==
    [][LET e == ThisEvent
       IN  /\ (selected_color = None /\ selected_color' # None)
                 <=> (Browsing /\ e = Pressed("A")
                      /\ selected \in HighlightColor .. ButtonYColor)
           /\ (selected_color = None /\ selected_color' # None)
                 => /\ selected_color' =
                          Some([color |-> stylesheet[ColorField(selected)],
                                selected |-> 0])
                    /\ stylesheet' = stylesheet
                    /\ selected' = selected
                    /\ command' = None
           /\ (selected_color # None /\ selected_color' = None)
                 => e \in {Pressed("A"), Pressed("B")}
           /\ (selected_color # None /\ e.key \in {"Up", "Down", "Left", "Right"})
                 => /\ selected_color' # None
                    /\ stylesheet' = stylesheet
                    /\ selected' = selected
                    /\ command' = None]_vars

\* C17 witness: Pressed(A) on ForegroundColor has just opened a color edit on
\* the loaded foreground color.
C17_Witness ==
    /\ key_event = Some(Pressed("A"))
    /\ selected = ForegroundColor
    /\ selected_color = Some([color |-> stylesheet.foreground_color, selected |-> 0])
    /\ stylesheet \in SavedStylesheets
    /\ command = None
    /\ calls = 4

\* C18: a call returns at most one command, a SaveStylesheet, and only for
\* Pressed(A): every other event, Autorepeat(A) included, returns none.
C18_CommandOnlyFromAccept ==
    /\ Len(command) <= 1
    /\ command # None
          => /\ key_event = Some(Pressed("A"))
             /\ command[1].type = "SaveStylesheet"

\* C18 witness: Autorepeat(A) on EnableBoxArt, the second call: no command,
\* no toggle, no redraw.
C18_Witness ==
    /\ calls = 2
    /\ key_event = Some(Autorepeat("A"))
    /\ selected = EnableBoxArt
    /\ stylesheet \in SavedStylesheets
    /\ command = None
    /\ ~redraw

\* C19: in Browsing, Pressed(A) on DarkMode replaces foreground_color and
\* background_color by their inverses, leaves enable_box_art, the highlight
\* color and the four button colors unchanged and returns one SaveStylesheet
\* with the updated stylesheet; Pressed(A) on EnableBoxArt changes no color.
C19_DarkModeAndBoxArtIndependent ==
    [][/\ (Browsing /\ selected = DarkMode /\ ThisEvent = Pressed("A"))
          => /\ stylesheet'.foreground_color = invert(stylesheet.foreground_color)
             /\ stylesheet'.background_color = invert(stylesheet.background_color)
             /\ \A f \in StylesheetFields \ {"foreground_color", "background_color"} :
                   stylesheet'[f] = stylesheet[f]
             /\ command' = Some(SaveStylesheet(stylesheet'))
       /\ (Browsing /\ selected = EnableBoxArt /\ ThisEvent = Pressed("A"))
          => \A f \in StylesheetFields \ {"enable_box_art"} :
                stylesheet'[f] = stylesheet[f]]_vars

\* C19 witness: Pressed(A) on DarkMode as the first event after loading the
\* customised theme: foreground and background are inverted, box art is off
\* as loaded.
C19_Witness ==
    /\ calls = 1
    /\ key_event = Some(Pressed("A"))
    /\ selected = DarkMode
    /\ stylesheet.foreground_color = Color(15, 112, 240)
    /\ stylesheet.background_color = Color(239, 127, 0)
    /\ stylesheet.highlight_color = Color(26, 43, 60)
    /\ ~stylesheet.enable_box_art
    /\ command = Some(SaveStylesheet(stylesheet))

\* C20: the modes exclude each other.  confirm_reset and an open color edit
\* are never both set; confirm_reset is set only with the selection on
\* ResetToDefault; a color edit is open only with the selection on an entry
\* 2..8; the selection names an entry.  (So select_entry never meets its
\* warn!() arms: a commit finds a color entry, a selection finds a variant.)
C20_ModesExclusive ==
    /\ ~(confirm_reset /\ selected_color # None)
    /\ confirm_reset => selected = ResetToDefault
    /\ selected_color # None => selected \in HighlightColor .. ButtonYColor
    /\ selected \in 0 .. ThemeSetting_COUNT - 1

\* C20 witness: a run that opened a color edit, left it, and has now armed
\* the reset on entry 9.
C20_Witness ==
    /\ entered # None
    /\ confirm_reset
    /\ selected = ResetToDefault
    /\ selected_color = None
    /\ key_event = Some(Pressed("A"))

-----------------------------------------------------------------------------
(* Properties of the theme editor: persistence and redraw *)

\* C21: no unpersisted mutation.  A call that changes the stylesheet returns
\* a SaveStylesheet, and every SaveStylesheet a call returns carries the
\* stylesheet as the call left it; so the stylesheet always equals the
\* snapshot of the last SaveStylesheet returned, or the loaded stylesheet
\* while none was returned.
C21_NoUnpersistedMutation ==
    [][/\ stylesheet' # stylesheet => command' # None
       /\ command' # None
             => /\ command'[1].type = "SaveStylesheet"
                /\ command'[1].stylesheet = stylesheet']_vars

\* C21 witness: two presses of A on DarkMode right after construction; each
\* changed the stylesheet, the second one back to the loaded one, and the
\* command of the second carries it.
C21_Witness ==
    /\ calls = 2
    /\ key_event = Some(Pressed("A"))
    /\ selected = DarkMode
    /\ stylesheet \in SavedStylesheets
    /\ command # None
    /\ command[1].stylesheet = stylesheet

\* C23: redraw signalling is sound.  A call that returns redraw = false
\* changed none of the stylesheet, the selected index, the color-edit state
\* and confirm_reset.
C23_RedrawSound ==
    [][redraw' = FALSE
       => UNCHANGED <<stylesheet, selected, selected_color, confirm_reset>>]_vars

\* C23 witness: Autorepeat(B) arrived during a color edit whose cursor had
\* moved; the call returned redraw = false and the edit is as it was.
C23_Witness ==
    /\ key_event = Some(Autorepeat("B"))
    /\ selected_color # None
    /\ selected_color[1].selected = 2
    /\ command = None
    /\ ~redraw

-----------------------------------------------------------------------------
(* Properties of the Display view: button hints *)

\* How often the hint h occurs in the row.
HintCount(row, h) == Cardinality({k \in 1 .. Len(row) : row[k] = h})

\* C22: button-hint conservation.  The Back hint is always in the row; the
\* Edit hint is there exactly once, either at position 0 of the row or held
\* in edit_button; and after an event the list consumed, the Edit hint is in
\* the row exactly when the list's selection is not on row 4.
C22_HintsConserved ==
    /\ HintCount(button_hints, BackHint) = 1
    /\ \/ /\ edit_button = None
          /\ HintCount(button_hints, EditHint) = 1
          /\ button_hints[1] = EditHint
       \/ /\ edit_button = Some(EditHint)
          /\ HintCount(button_hints, EditHint) = 0
    /\ consumed => (HintCount(button_hints, EditHint) = 1 <=> list.selected # 4)

=============================================================================
